---- MODULE Spec2Model ----
(***************************************************************************)
(* Payment-provider adapters of the Medusa backend:                        *)
(*   - the Express route POST /payment/webhook,                            *)
(*   - CustomPaymentProviderService (bearer token, axios),                 *)
(*   - FoxPayProviderService (api key, fetch, getWebhookActionAndData).    *)
(*                                                                         *)
(* Spec    : one payment session held by the host, driven through the      *)
(*           FoxPay operations (request / response), the synchronous       *)
(*           operations of the Custom provider, and webhook deliveries.    *)
(* SpecTok : the credential slot of CustomPaymentProviderService under     *)
(*           concurrent createPayment / refundPayment / getStatus calls.   *)
(***************************************************************************)
EXTENDS Integers, FiniteSets, Sequences, TLC

VARIABLES
  variant,        \* provider the host's session belongs to: "foxpay" | "custom"
  sessStatus,     \* host-held status of the session ("none" before initiate)
  sessData,       \* host-held session data (what the provider last returned)
  assignedId,     \* history: externalId the session got when it was created
  call,           \* FoxPay call awaiting its HTTP response (op "none" if idle)
  last,           \* history: what the last operation or webhook delivery returned
                  \* (consumed by the host when it makes the next call)
  webhookSecret,  \* process.env.PAYMENT_PROVIDER_WEBHOOK_SECRET
  accessToken,    \* CustomPaymentProviderService.accessToken
  tokenExpiry,    \* CustomPaymentProviderService.tokenExpiry
  now,            \* Date.now()
  issued,         \* history: number of tokens the auth endpoint has issued
  authCalls,      \* history: number of authentication requests sent
  procs           \* concurrent callers of the Custom provider

vars == <<variant, sessStatus, sessData, assignedId, call, last, webhookSecret,
          accessToken, tokenExpiry, now, issued, authCalls, procs>>

tokVars  == <<accessToken, tokenExpiry, now, issued, authCalls, procs>>

----------------------------------------------------------------------------
(* Values *)

\* JavaScript undefined / a missing property
Absent == "absent"

\* processor-assigned identifiers
Ids == {"fp_1", "fp_2"}

\* status strings a processor response may carry
ProcStatuses == {"authorized", "pending", "captured", "canceled", "failed"}

Amounts == {1000}
NoAmount == 0 - 1

\* String.prototype.toUpperCase on the currency codes of the model
ToUpperCase(s) == IF s = "eur" THEN "EUR" ELSE s

\* session data: the properties the adapters read or write
NoData ==
  [id |-> Absent, transactionId |-> Absent, qr_code_url |-> Absent,
   verwendungszweck |-> Absent, status |-> Absent]

\* { ...a, ...b }: properties of b win where b has them
Spread(a, b) == [k \in DOMAIN a |-> IF b[k] # Absent THEN b[k] ELSE a[k]]

\* decoded JSON bodies of a 2xx processor response: an object or null.
\* The status endpoint answers with a status; the other endpoints answer
\* with the processor's record of the payment.
JNull == [isObj |-> FALSE, id |-> Absent, qr_code_url |-> Absent, status |-> Absent]
StatusBodies ==
  {JNull} \cup
  [isObj : {TRUE}, id : {Absent}, qr_code_url : {Absent},
   status : ProcStatuses \cup {Absent}]
RecordBodies ==
  {JNull,
   [isObj |-> TRUE, id |-> Absent, qr_code_url |-> Absent, status |-> Absent],
   [isObj |-> TRUE, id |-> Absent, qr_code_url |-> Absent, status |-> "captured"],
   [isObj |-> TRUE, id |-> "fp_1", qr_code_url |-> "https://x/y", status |-> Absent],
   [isObj |-> TRUE, id |-> "fp_2", qr_code_url |-> "https://x/y", status |-> "captured"]}
Bodies(op) == IF op \in {"authorize", "status"} THEN StatusBodies ELSE RecordBodies

\* the properties of a decoded body, as session data
BodyData(b) ==
  [NoData EXCEPT !.id = b.id, !.qr_code_url = b.qr_code_url, !.status = b.status]

\* outcomes of one fetch(): 2xx with a decodable body, 2xx whose body is not
\* JSON, a non-2xx status with a text body, a non-2xx status whose body
\* cannot be read, or a rejected fetch
ErrorText == "bad request"
NoOutcome == [kind |-> "none", body |-> JNull, text |-> Absent]
HttpOutcomes(op) ==
  [kind : {"ok"}, body : Bodies(op), text : {Absent}] \cup
  [kind : {"badjson", "transport", "unread"}, body : {JNull}, text : {Absent}] \cup
  [kind : {"non2xx"}, body : {JNull}, text : {ErrorText}]

\* the exception a failed fetch()/json() raises
Thrown(h) ==
  IF h.kind \in {"transport", "unread"} THEN "NetworkError"
  ELSE IF h.kind = "badjson" THEN "SyntaxError"
  ELSE "TypeError"

----------------------------------------------------------------------------
(* Results returned to the host *)

OkResult(op, status, data) ==
  [kind |-> "op", op |-> op, tag |-> "ok", error |-> Absent, code |-> Absent,
   detail |-> Absent, status |-> status, data |-> data]

ErrResult(op, error, code, detail) ==
  [kind |-> "op", op |-> op, tag |-> "error", error |-> error, code |-> code,
   detail |-> detail, status |-> Absent, data |-> NoData]

ThrowResult(op, error) ==
  [kind |-> "op", op |-> op, tag |-> "throw", error |-> error, code |-> Absent,
   detail |-> Absent, status |-> Absent, data |-> NoData]

\* catch (e) { return { error: e, code: "unknown", detail: e } }
UnknownResult(op, e) == ErrResult(op, e, "unknown", e)

\* if (!res.ok) { detail = await res.text(); return { error, code, detail } }
FailedResult(op, prefix, code, h) ==
  ErrResult(op, prefix \o h.text, code, h.text)

----------------------------------------------------------------------------
(* FoxPayProviderService: each operation as a function of its arguments    *)
(* and of the outcome of its one fetch()                                   *)

\* `Order #${paymentContext?.cart_id ?? "unknown"}`
Verwendungszweck(prefix, cart_id) ==
  prefix \o (IF cart_id = Absent THEN "unknown" ELSE cart_id)

\* path of the endpoint an operation's fetch() addresses
Endpoint(op) ==
  CASE op = "initiate" -> "/initiate"
    [] op \in {"authorize", "status"} -> "/status"
    [] op = "capture" -> "/capture"
    [] op \in {"cancel", "delete"} -> "/cancel"
    [] op = "refund" -> "/refund"
    [] op = "retrieve" -> "/retrieve"
    [] op = "update" -> "/update"

\* body of the request an operation sends, from the call's arguments
FoxRequest(op, arg, ctx) ==
  [op |-> op,
   id |-> IF op = "initiate" THEN Absent ELSE arg.id,
   amount |-> IF op \in {"initiate", "update", "refund"} THEN ctx.amount ELSE NoAmount,
   currency |-> IF op \in {"initiate", "update"}
                THEN ToUpperCase(ctx.currency_code) ELSE Absent,
   verwendungszweck |->
     IF op = "initiate" THEN Verwendungszweck("Order #", ctx.cart_id)
     ELSE IF op = "update" THEN Verwendungszweck("Order Update #", ctx.cart_id)
     ELSE Absent]

FoxInitiatePayment(ctx, h) ==
  IF h.kind = "non2xx"
  THEN FailedResult("initiate", "FoxPay initiation failed: ", "init_failed", h)
  ELSE IF h.kind # "ok" \/ ~h.body.isObj
  THEN UnknownResult("initiate", Thrown(h))
  ELSE OkResult("initiate", Absent,
         [NoData EXCEPT !.id = h.body.id,
                        !.qr_code_url = h.body.qr_code_url,
                        !.verwendungszweck = Verwendungszweck("Order #", ctx.cart_id)])

FoxAuthorizePayment(paymentSessionData, h) ==
  IF h.kind = "non2xx"
  THEN FailedResult("authorize", "FoxPay status check failed: ", "status_failed", h)
  ELSE IF h.kind # "ok" \/ ~h.body.isObj
  THEN UnknownResult("authorize", Thrown(h))
  ELSE IF h.body.status = "authorized"
  THEN OkResult("authorize", "authorized", paymentSessionData)
  ELSE ErrResult("authorize", "Payment not yet authorized", "not_authorized",
                 "Still pending user action")

FoxCapturePayment(paymentData, h) ==
  IF h.kind = "non2xx"
  THEN FailedResult("capture", "FoxPay capture failed: ", "capture_failed", h)
  ELSE IF h.kind # "ok"
  THEN UnknownResult("capture", Thrown(h))
  ELSE OkResult("capture", Absent, Spread(paymentData, BodyData(h.body)))

FoxCancelPayment(op, paymentData, h) ==
  IF h.kind = "non2xx"
  THEN FailedResult(op, "FoxPay cancel failed: ", "cancel_failed", h)
  ELSE IF h.kind # "ok"
  THEN UnknownResult(op, Thrown(h))
  ELSE OkResult(op, Absent, Spread(paymentData, BodyData(h.body)))

\* return this.cancelPayment({ id: externalId })
FoxDeletePayment(paymentSessionData, h) ==
  FoxCancelPayment("delete", [NoData EXCEPT !.id = paymentSessionData.id], h)

\* refundPayment reporting the code of the method it was copied from
FoxRefundPaymentCopied(paymentData, h) ==
  IF h.kind = "non2xx"
  THEN FailedResult("refund", "FoxPay refund failed: ", "capture_failed", h)
  ELSE IF h.kind # "ok"
  THEN UnknownResult("refund", Thrown(h))
  ELSE OkResult("refund", Absent, Spread(paymentData, BodyData(h.body)))

FoxRefundPayment(paymentData, h) ==
  IF h.kind = "non2xx"
  THEN FailedResult("refund", "FoxPay refund failed: ", "refund_failed", h)
  ELSE IF h.kind # "ok"
  THEN UnknownResult("refund", Thrown(h))
  ELSE OkResult("refund", Absent, Spread(paymentData, BodyData(h.body)))

FoxRetrievePayment(paymentSessionData, h) ==
  IF h.kind = "non2xx"
  THEN FailedResult("retrieve", "FoxPay retrieve failed: ", "retrieve_failed", h)
  ELSE IF h.kind # "ok"
  THEN UnknownResult("retrieve", Thrown(h))
  ELSE OkResult("retrieve", Absent, BodyData(h.body))

FoxUpdatePayment(ctx, h) ==
  IF h.kind = "non2xx"
  THEN FailedResult("update", "FoxPay update failed: ", "update_failed", h)
  ELSE IF h.kind # "ok" \/ ~h.body.isObj
  THEN UnknownResult("update", Thrown(h))
  ELSE OkResult("update", Absent,
         [NoData EXCEPT !.id = h.body.id,
                        !.verwendungszweck =
                            Verwendungszweck("Order Update #", ctx.cart_id)])

\* the switch of getPaymentStatus
MapStatus(s) ==
  IF s \in {"authorized", "captured", "canceled"} THEN s ELSE "pending"

FoxGetPaymentStatus(paymentSessionData, h) ==
  IF h.kind # "ok" \/ ~h.body.isObj
  THEN OkResult("status", "error", NoData)
  ELSE OkResult("status", MapStatus(h.body.status), NoData)

FoxResult(c, h) ==
  CASE c.op = "initiate" -> FoxInitiatePayment(c.ctx, h)
    [] c.op = "authorize" -> FoxAuthorizePayment(c.arg, h)
    [] c.op = "capture" -> FoxCapturePayment(c.arg, h)
    [] c.op = "cancel" -> FoxCancelPayment("cancel", c.arg, h)
    [] c.op = "delete" -> FoxDeletePayment(c.arg, h)
    [] c.op = "refund" -> FoxRefundPayment(c.arg, h)
    [] c.op = "retrieve" -> FoxRetrievePayment(c.arg, h)
    [] c.op = "update" -> FoxUpdatePayment(c.ctx, h)
    [] c.op = "status" -> FoxGetPaymentStatus(c.arg, h)

----------------------------------------------------------------------------
(* CustomPaymentProviderService: the operations that send no request *)

\* return { status: 'authorized', data: paymentSession.data }
CustomAuthorizePayment(data) == OkResult("authorize", "authorized", data)

\* return { status: 'captured', data: payment.data }
CustomCapturePayment(data) == OkResult("capture", "captured", data)

\* return { ...paymentData, status: 'cancelled' }
CustomCancelPayment(paymentData) ==
  OkResult("cancel", Absent, [paymentData EXCEPT !.status = "cancelled"])

\* return paymentData
CustomRetrievePayment(paymentData) == OkResult("retrieve", Absent, paymentData)

\* return Object.assign({}, paymentSessionData, update)
CustomUpdatePaymentData(paymentSessionData, update) ==
  OkResult("updateData", Absent, Spread(paymentSessionData, update))

\* return { ...paymentSessionData, data: { ...paymentSessionData.data, ...data } }
CustomUpdatePayment(sessionData, data) ==
  OkResult("update", Absent, Spread(sessionData, data))

\* update objects the host may pass to updatePayment / updatePaymentData
Updates ==
  {[NoData EXCEPT !.status = "PAID"], [NoData EXCEPT !.transactionId = "tx_2"]}

----------------------------------------------------------------------------
(* Webhook deliveries *)

\* the secret the processor signs its deliveries with
SharedSecret == "whsec"

EventTypes == {"payment_authorized", "payment_captured", "payment_refunded"}

\* a parsed request body: an object { event_type, session_id, amount }, or
\* nothing where the request carried no JSON object
NoPayload ==
  [isObj |-> FALSE, event_type |-> Absent, session_id |-> Absent, amount |-> NoAmount]
Payloads ==
  {NoPayload} \cup
  [isObj : {TRUE}, event_type : EventTypes, session_id : Ids, amount : Amounts]

\* the raw bytes of a request body: a JSON text, compact or with
\* insignificant white space between its tokens
RawBodies == [json : Payloads, spaced : BOOLEAN]

\* the body parser: white space is not part of the parsed value
Parse(raw) == raw.json

\* JSON.stringify: the compact text of a value
Stringify(v) == [json |-> v, spaced |-> FALSE]

\* crypto.createHmac('sha384', key).update(msg).digest('hex'), collision free
Hmac(key, msg) == [key |-> key, msg |-> msg]
NoSignature == [key |-> Absent, msg |-> Stringify(NoPayload)]

\* signatures a delivery of raw may carry
Signatures(raw) ==
  {Hmac(SharedSecret, raw), Hmac(SharedSecret, Stringify(Parse(raw))),
   Hmac("forged", raw), NoSignature}

\* deliveries to the route: its answer does not read the event's properties
RouteBodies ==
  {raw \in RawBodies :
     raw.json.isObj =>
       raw.json.event_type = "payment_captured" /\ raw.json.session_id = "fp_1"}

\* deliveries to the provider: it reads the parsed body alone
ProviderBodies == {raw \in RawBodies : ~raw.spaced}
ProviderSignatures(raw) == {Hmac(SharedSecret, raw), NoSignature}

\* the delivery is authentic: signed over its raw bytes with the shared secret
Verified(raw, sig) == sig = Hmac(SharedSecret, raw)

\* what a delivery came to: the answer or action returned and the session
\* data the action carries, with the delivery itself kept as history
WebhookResult(entry, raw, sig, response, action, p, changed) ==
  [kind |-> "webhook", entry |-> entry, seen |-> raw, sig |-> sig,
   verified |-> Verified(raw, sig),
   response |-> response, action |-> action,
   session_id |-> p.session_id, amount |-> p.amount, changed |-> changed]

\* router.post('/payment/webhook'): "throw" is a rejected handler promise,
\* no response is sent
RouteResponse(secret, raw, sig) ==
  IF secret = Absent \/ ~Parse(raw).isObj THEN "throw"
  ELSE IF Hmac(secret, Stringify(Parse(raw))) # sig THEN "401"
  ELSE "200"

\* getWebhookActionAndData reporting every known event as authorized
WebhookActionAuthorizedOnly(data) ==
  IF ~data.isObj THEN "throw"
  ELSE IF data.event_type \in {"payment_authorized", "payment_captured"}
  THEN "authorized"
  ELSE "not_supported"

\* FoxPayProviderService.getWebhookActionAndData: the action returned, or
\* "throw" where the catch block itself raises
WebhookAction(data) ==
  IF ~data.isObj THEN "throw"
  ELSE IF data.event_type = "payment_authorized" THEN "authorized"
  ELSE IF data.event_type = "payment_captured" THEN "captured"
  ELSE "not_supported"

\* the session status after the host applies a webhook action (spec 4.4, 8)
HostWebhookStatus(v, status, data, action, session_id) ==
  IF /\ action \in {"authorized", "captured"}
     /\ v = "foxpay"
     /\ status # "none"
     /\ data.id = session_id
  THEN action
  ELSE status

----------------------------------------------------------------------------
(* CustomPaymentProviderService: the credential slot and the operations    *)
(* that use it (createPayment, refundPayment, getStatus)                   *)

Callers == {"a", "b"}

\* model bounds: seconds the clock may advance, authentication requests sent
MaxTicks == 2
MaxAuthCalls == 3

\* expiresIn * 1000
MsPerSecond == 1000

\* tokenExpiry: null, a number of milliseconds, or NaN
NullExpiry == [kind |-> "null", ms |-> 0]
NaNExpiry == [kind |-> "nan", ms |-> 0]
NumExpiry(ms) == [kind |-> "num", ms |-> ms]

\* Date.now() >= this.tokenExpiry, with JavaScript's coercion of null to 0
\* and every comparison with NaN false
NowAtOrPastExpiry(t, expiry) ==
  CASE expiry.kind = "null" -> t >= 0
    [] expiry.kind = "nan" -> FALSE
    [] expiry.kind = "num" -> t >= expiry.ms

\* !this.accessToken
Falsy(token) == token \in {Absent, "undefined"}

\* ensureAuthenticated refreshing a second before the expiry
NeedsAuthenticationEarly(token, expiry, t) ==
  Falsy(token) \/ NowAtOrPastExpiry(t + MsPerSecond, expiry)

\* the condition of ensureAuthenticated
NeedsAuthentication(token, expiry, t) ==
  Falsy(token) \/ NowAtOrPastExpiry(t, expiry)

\* the n-th token the authentication endpoint issues
Token(n) == "tok" \o ToString(n)

\* outcomes of the POST to the authentication endpoint; a 2xx body may lack
\* accessToken or expiresIn, or be empty
ExpiresInSecs == {1, 2}
AuthOutcomes ==
  [kind : {"ok"}, hasToken : {TRUE}, hasExpiresIn : {TRUE}, expiresIn : ExpiresInSecs] \cup
  {[kind |-> "ok", hasToken |-> FALSE, hasExpiresIn |-> TRUE, expiresIn |-> 1],
   [kind |-> "ok", hasToken |-> TRUE, hasExpiresIn |-> FALSE, expiresIn |-> 0],
   [kind |-> "nobody", hasToken |-> FALSE, hasExpiresIn |-> FALSE, expiresIn |-> 0],
   [kind |-> "non2xx", hasToken |-> FALSE, hasExpiresIn |-> FALSE, expiresIn |-> 0],
   [kind |-> "transport", hasToken |-> FALSE, hasExpiresIn |-> FALSE, expiresIn |-> 0]}

\* authenticate(): does the await of axios.post, or the destructuring of
\* response.data, raise
AuthThrows(o) == o.kind # "ok"

\* const { accessToken, expiresIn } = response.data finds a property missing
Malformed(o) == ~(o.hasToken /\ o.hasExpiresIn)

\* this.accessToken = accessToken
AuthToken(o, n) == IF o.hasToken THEN Token(n) ELSE "undefined"

\* this.tokenExpiry = Date.now() + expiresIn * 1000
AuthExpiry(o, t) ==
  IF o.hasExpiresIn THEN NumExpiry(t + o.expiresIn * MsPerSecond) ELSE NaNExpiry

\* String.prototype.toLowerCase on the status strings of the model
ToLowerCase(s) ==
  CASE s = "PENDING" -> "pending"
    [] s = "Authorized" -> "authorized"
    [] s = "CAPTURED" -> "captured"
    [] s = "REFUNDED" -> "refunded"
    [] OTHER -> s

\* outcomes of a gateway request through axios: 2xx with response.data, or a
\* rejected promise (non-2xx status, transport failure). A 2xx body is an
\* object that may lack the property read, or empty.
CustomBodies ==
  {[isObj |-> FALSE, transactionId |-> Absent, status |-> Absent],
   [isObj |-> TRUE, transactionId |-> Absent, status |-> Absent],
   [isObj |-> TRUE, transactionId |-> "tx_1", status |-> "PENDING"],
   [isObj |-> TRUE, transactionId |-> "tx_1", status |-> "Authorized"],
   [isObj |-> TRUE, transactionId |-> "tx_1", status |-> "REFUNDED"],
   [isObj |-> TRUE, transactionId |-> "tx_2", status |-> "CAPTURED"]}
AxiosOutcomes ==
  [kind : {"ok"}, body : CustomBodies] \cup
  [kind : {"non2xx", "transport"}, body : {[isObj |-> FALSE, transactionId |-> Absent,
                                            status |-> Absent]}]

\* createPayment after ensureAuthenticated
CustomCreatePayment(h) ==
  IF h.kind # "ok" \/ ~h.body.isObj
  THEN ThrowResult("create", "Payment creation failed")
  ELSE OkResult("create", Absent,
         [NoData EXCEPT !.transactionId = h.body.transactionId,
                        !.status = h.body.status])

\* refundPayment after ensureAuthenticated
CustomRefundPayment(data, h) ==
  IF h.kind # "ok" \/ ~h.body.isObj \/ h.body.status = Absent
  THEN ThrowResult("refund", "Refund failed")
  ELSE OkResult("refund", ToLowerCase(h.body.status), data)

\* getStatus after ensureAuthenticated: the body's transaction, if its
\* paymentTransactionId is the one asked for
CustomGetStatus(data, h) ==
  IF \/ h.kind # "ok" \/ ~h.body.isObj
     \/ h.body.transactionId # data.transactionId
     \/ h.body.status = Absent
  THEN ThrowResult("status", "Failed to get payment status")
  ELSE OkResult("status", ToLowerCase(h.body.status), NoData)

CustomResult(op, data, h) ==
  CASE op = "create" -> CustomCreatePayment(h)
    [] op = "refund" -> CustomRefundPayment(data, h)
    [] op = "status" -> CustomGetStatus(data, h)

\* a caller: its position, the operation it runs, and the history of that
\* invocation (authentication requests sent, whether the authentication body
\* it received was malformed, gateway requests sent, the bearer token its
\* gateway request carried)
IdleCaller ==
  [pc |-> "idle", op |-> "none", auths |-> 0, malformed |-> FALSE, reqs |-> 0,
   bearer |-> Absent, fresh |-> TRUE]

----------------------------------------------------------------------------
(* The host's session record: how a returned result is applied (spec 4.3) *)

HostStatus(status, r) ==
  IF r.tag # "ok" THEN status
  ELSE CASE r.op = "initiate" -> "pending"
         [] r.op = "authorize" -> r.status
         [] r.op = "capture" -> "captured"
         [] r.op \in {"cancel", "delete"} -> "canceled"
         [] OTHER -> status

HostData(data, r) ==
  IF r.tag = "ok" /\
     r.op \in {"initiate", "authorize", "capture", "cancel", "refund",
               "update", "updateData"}
  THEN r.data
  ELSE data

\* the session's external identifier, under the key its provider uses
ExternalId(v, data) == IF v = "foxpay" THEN data.id ELSE data.transactionId

----------------------------------------------------------------------------
(* Spec: state and actions *)

NoCtx == [amount |-> NoAmount, currency_code |-> Absent, cart_id |-> Absent]
Contexts ==
  {[amount |-> a, currency_code |-> "eur", cart_id |-> "cart_1"] : a \in Amounts} \cup
  {[amount |-> a, currency_code |-> "EUR", cart_id |-> Absent] : a \in Amounts}
NoCall ==
  [op |-> "none", arg |-> NoData, ctx |-> NoCtx, statusAtCall |-> "none",
   requests |-> <<>>, settled |-> NoOutcome]
NoLast == [kind |-> "none"]

\* the session createPayment returns for the Custom provider
CustomSession == [NoData EXCEPT !.transactionId = "tx_1", !.status = "PENDING"]

TokIdle ==
  /\ accessToken = Absent
  /\ tokenExpiry = NullExpiry
  /\ now = 0
  /\ issued = 0
  /\ authCalls = 0
  /\ procs = [c \in Callers |-> IdleCaller]

Init ==
  /\ variant \in {"foxpay", "custom"}
  /\ sessStatus = IF variant = "foxpay" THEN "none" ELSE "pending"
  /\ sessData = IF variant = "foxpay" THEN NoData ELSE CustomSession
  /\ assignedId = ExternalId(variant, sessData)
  /\ call = NoCall
  /\ last = NoLast
  /\ webhookSecret \in IF variant = "custom" THEN {SharedSecret, Absent}
                                              ELSE {SharedSecret}
  /\ TokIdle

\* a FoxPay method is entered and sends its request
FoxCall(op, ctx) ==
  /\ variant = "foxpay"
  /\ call.op = "none"
  /\ call' = [op |-> op, arg |-> sessData, ctx |-> ctx, statusAtCall |-> sessStatus,
              requests |-> <<Endpoint(op)>>, settled |-> NoOutcome]
  /\ last' = NoLast
  /\ UNCHANGED <<variant, sessStatus, sessData, assignedId, webhookSecret>>
  /\ UNCHANGED tokVars

InitiatePayment ==
  /\ sessStatus = "none"
  /\ \E ctx \in Contexts : FoxCall("initiate", ctx)

AuthorizePayment == sessStatus # "none" /\ FoxCall("authorize", NoCtx)

CapturePayment == sessStatus # "none" /\ FoxCall("capture", NoCtx)

CancelPayment == sessStatus # "none" /\ FoxCall("cancel", NoCtx)

DeletePayment == sessStatus # "none" /\ FoxCall("delete", NoCtx)

RefundPayment ==
  /\ sessStatus # "none"
  /\ \E a \in Amounts : FoxCall("refund", [NoCtx EXCEPT !.amount = a])

RetrievePayment == sessStatus # "none" /\ FoxCall("retrieve", NoCtx)

UpdatePayment ==
  /\ sessStatus # "none"
  /\ \E ctx \in Contexts : FoxCall("update", ctx)

GetPaymentStatus == sessStatus # "none" /\ FoxCall("status", NoCtx)

\* the host stores what an operation returned; the history keeps the status
\* the session had when the operation was called and the outcome of its request
Apply(r, before, h) ==
  /\ last' = r @@ [before |-> before, seen |-> h]
  /\ sessStatus' = HostStatus(sessStatus, r)
  /\ sessData' = HostData(sessData, r)
  /\ assignedId' = IF r.op = "initiate" /\ r.tag = "ok"
                   THEN r.data.id ELSE assignedId

\* a method that sends its request a second time when the first one fails
FoxRespondRetrying ==
  /\ call.op # "none"
  /\ \E h \in HttpOutcomes(call.op) :
       IF h.kind # "ok" /\ Len(call.requests) < 2
       THEN /\ call' = [call EXCEPT !.requests = Append(@, Endpoint(call.op))]
            /\ UNCHANGED <<sessStatus, sessData, assignedId, last>>
       ELSE /\ Apply(FoxResult(call, h) @@ [requests |-> call.requests],
                     call.statusAtCall, h)
            /\ call' = NoCall
  /\ UNCHANGED <<variant, webhookSecret>>
  /\ UNCHANGED tokVars

\* the fetch of the outstanding call settles and the method returns; the
\* history keeps the requests the invocation sent
FoxRespond ==
  /\ call.op # "none"
  /\ \E h \in HttpOutcomes(call.op) :
       Apply(FoxResult(call, h) @@ [requests |-> call.requests],
             call.statusAtCall, h)
  /\ call' = NoCall
  /\ UNCHANGED <<variant, webhookSecret>>
  /\ UNCHANGED tokVars

\* an operation of the Custom provider that returns without a request
CustomOp(r) ==
  /\ variant = "custom"
  /\ Apply(r, sessStatus, NoOutcome)
  /\ UNCHANGED <<variant, call, webhookSecret>>
  /\ UNCHANGED tokVars

CustomAuthorize == CustomOp(CustomAuthorizePayment(sessData))

CustomCapture == CustomOp(CustomCapturePayment(sessData))

CustomCancel == CustomOp(CustomCancelPayment(sessData))

CustomRetrieve == CustomOp(CustomRetrievePayment(sessData))

CustomUpdateData == \E u \in Updates : CustomOp(CustomUpdatePaymentData(sessData, u))

CustomUpdate == \E u \in Updates : CustomOp(CustomUpdatePayment(sessData, u))

\* a delivery to POST /payment/webhook, the notificationUrl that
\* CustomPaymentProviderService.createPayment registers with the processor
WebhookRoute ==
  /\ variant = "custom"
  /\ \E raw \in RouteBodies : \E sig \in Signatures(raw) :
       last' = WebhookResult("route", raw, sig,
                             RouteResponse(webhookSecret, raw, sig), "none",
                             NoPayload, FALSE)
  /\ UNCHANGED <<variant, sessStatus, sessData, assignedId, call, webhookSecret>>
  /\ UNCHANGED tokVars

\* a delivery the host hands to getWebhookActionAndData, whose action it applies
WebhookProvider ==
  /\ variant = "foxpay"
  /\ \E raw \in ProviderBodies : \E sig \in ProviderSignatures(raw) :
       LET data == Parse(raw)
           action == WebhookAction(data)
           status == HostWebhookStatus(variant, sessStatus, sessData,
                                       action, data.session_id)
       IN /\ last' = WebhookResult("provider", raw, sig,
                                   IF action = "throw" THEN "throw" ELSE "action",
                                   IF action = "throw" THEN "none" ELSE action,
                                   IF action \in {"authorized", "captured"}
                                   THEN data ELSE NoPayload,
                                   status # sessStatus)
                        @@ [before |-> sessStatus]
          /\ sessStatus' = status
  /\ UNCHANGED <<variant, sessData, assignedId, call, webhookSecret>>
  /\ UNCHANGED tokVars

Next ==
  \/ InitiatePayment
  \/ AuthorizePayment
  \/ CapturePayment
  \/ CancelPayment
  \/ DeletePayment
  \/ RefundPayment
  \/ RetrievePayment
  \/ UpdatePayment
  \/ GetPaymentStatus
  \/ FoxRespond
  \/ CustomAuthorize
  \/ CustomCapture
  \/ CustomCancel
  \/ CustomRetrieve
  \/ CustomUpdateData
  \/ CustomUpdate
  \/ WebhookRoute
  \/ WebhookProvider

Spec == Init /\ [][Next]_vars

----------------------------------------------------------------------------
(* SpecLive: the FoxPay operations with the network apart from the adapter. *)
(* The promise of fetch() settles when the network delivers an outcome,     *)
(* which the processor may never do; the method resumes once it is settled. *)

InitLive ==
  /\ variant = "foxpay"
  /\ sessStatus = "none"
  /\ sessData = NoData
  /\ assignedId = ExternalId(variant, sessData)
  /\ call = NoCall
  /\ last = NoLast
  /\ webhookSecret = SharedSecret
  /\ TokIdle

\* the network delivers the outcome of the outstanding fetch()
FetchSettles ==
  /\ call.op # "none"
  /\ call.settled = NoOutcome
  /\ \E h \in HttpOutcomes(call.op) : call' = [call EXCEPT !.settled = h]
  /\ UNCHANGED <<variant, sessStatus, sessData, assignedId, last, webhookSecret>>
  /\ UNCHANGED tokVars

\* the method resumes after `await fetch(...)` and returns
FoxResume ==
  /\ call.op # "none"
  /\ call.settled # NoOutcome
  /\ Apply(FoxResult(call, call.settled) @@ [requests |-> call.requests],
           call.statusAtCall, call.settled)
  /\ call' = NoCall
  /\ UNCHANGED <<variant, webhookSecret>>
  /\ UNCHANGED tokVars

NextLive ==
  \/ InitiatePayment
  \/ AuthorizePayment
  \/ CapturePayment
  \/ CancelPayment
  \/ DeletePayment
  \/ RefundPayment
  \/ RetrievePayment
  \/ UpdatePayment
  \/ GetPaymentStatus
  \/ FetchSettles
  \/ FoxResume

\* the event loop runs the continuation of a settled promise; nothing obliges
\* the host to call or the processor to answer
SpecLive == InitLive /\ [][NextLive]_vars /\ WF_vars(FoxResume)

----------------------------------------------------------------------------
(* SpecTok: concurrent callers of the Custom provider *)

InitTok ==
  /\ variant = "custom"
  /\ sessStatus = "pending"
  /\ sessData = CustomSession
  /\ assignedId = ExternalId(variant, sessData)
  /\ call = NoCall
  /\ last = NoLast
  /\ webhookSecret = SharedSecret
  /\ TokIdle

TokFrame == UNCHANGED <<variant, sessStatus, sessData, assignedId, call, webhookSecret>>

\* await this.ensureAuthenticated(): the check and, if it asks for one, the
\* sending of the authentication request
EnsureAuthenticated(c, op) ==
  /\ procs[c].pc = "idle"
  /\ IF NeedsAuthentication(accessToken, tokenExpiry, now)
     THEN /\ authCalls < MaxAuthCalls
          /\ authCalls' = authCalls + 1
          /\ procs' = [procs EXCEPT ![c] = [IdleCaller EXCEPT !.pc = "auth",
                                               !.op = op, !.auths = 1]]
     ELSE /\ authCalls' = authCalls
          /\ procs' = [procs EXCEPT ![c] = [IdleCaller EXCEPT !.pc = "ready",
                                               !.op = op]]
  /\ last' = NoLast
  /\ UNCHANGED <<accessToken, tokenExpiry, now, issued>>
  /\ TokFrame

CreatePaymentCall(c) == EnsureAuthenticated(c, "create")

RefundPaymentCall(c) == EnsureAuthenticated(c, "refund")

GetStatusCall(c) == EnsureAuthenticated(c, "status")

\* authenticate() sending the request again when it fails
AuthenticateRetrying(c) ==
  /\ procs[c].pc = "auth"
  /\ \E o \in AuthOutcomes :
       IF AuthThrows(o)
       THEN /\ authCalls < MaxAuthCalls
            /\ authCalls' = authCalls + 1
            /\ procs' = [procs EXCEPT ![c].auths = @ + 1]
            /\ UNCHANGED <<accessToken, tokenExpiry, issued, last>>
       ELSE /\ accessToken' = AuthToken(o, issued + 1)
            /\ tokenExpiry' = AuthExpiry(o, now)
            /\ issued' = issued + 1
            /\ procs' = [procs EXCEPT ![c].pc = "ready",
                                      ![c].malformed = Malformed(o)]
            /\ UNCHANGED <<authCalls, last>>
  /\ UNCHANGED now
  /\ UNCHANGED <<variant, sessStatus, sessData, assignedId, call, webhookSecret>>

\* authenticate() keeping a credential that another caller stored meanwhile
AuthenticateFirstWins(c) ==
  /\ procs[c].pc = "auth"
  /\ \E o \in AuthOutcomes :
       IF AuthThrows(o)
       THEN /\ procs' = [procs EXCEPT ![c] = IdleCaller]
            /\ last' = ThrowResult(procs[c].op, "Authentication failed")
                          @@ [before |-> sessStatus, seen |-> o]
            /\ UNCHANGED <<accessToken, tokenExpiry, issued>>
       ELSE /\ IF NeedsAuthentication(accessToken, tokenExpiry, now)
               THEN /\ accessToken' = AuthToken(o, issued + 1)
                    /\ tokenExpiry' = AuthExpiry(o, now)
               ELSE UNCHANGED <<accessToken, tokenExpiry>>
            /\ issued' = issued + 1
            /\ procs' = [procs EXCEPT ![c].pc = "ready",
                                      ![c].malformed = Malformed(o)]
            /\ last' = last
  /\ UNCHANGED <<now, authCalls>>
  /\ TokFrame

\* the authentication request of caller c settles: authenticate() stores the
\* credential, or throws and the operation rejects
Authenticate(c) ==
  /\ procs[c].pc = "auth"
  /\ \E o \in AuthOutcomes :
       IF AuthThrows(o)
       THEN /\ procs' = [procs EXCEPT ![c] = IdleCaller]
            /\ last' = ThrowResult(procs[c].op, "Authentication failed")
                          @@ [before |-> sessStatus, seen |-> o]
            /\ UNCHANGED <<accessToken, tokenExpiry, issued>>
       ELSE /\ accessToken' = AuthToken(o, issued + 1)
            /\ tokenExpiry' = AuthExpiry(o, now)
            /\ issued' = issued + 1
            /\ procs' = [procs EXCEPT ![c].pc = "ready",
                                      ![c].malformed = Malformed(o)]
            /\ last' = last
  /\ UNCHANGED <<now, authCalls>>
  /\ TokFrame

\* the operation resumes after its await and sends the gateway request with
\* Authorization: Bearer ${this.accessToken}
SendRequest(c) ==
  /\ procs[c].pc = "ready"
  /\ procs' = [procs EXCEPT ![c].pc = "sent",
                            ![c].reqs = @ + 1,
                            ![c].bearer = accessToken,
                            ![c].fresh = ~NowAtOrPastExpiry(now, tokenExpiry)]
  /\ UNCHANGED <<accessToken, tokenExpiry, now, issued, authCalls, last>>
  /\ TokFrame

\* the gateway request of caller c settles and the operation returns or throws
Settle(c) ==
  /\ procs[c].pc = "sent"
  /\ \E h \in AxiosOutcomes :
       last' = CustomResult(procs[c].op, sessData, h)
                 @@ [before |-> sessStatus, seen |-> h]
  /\ procs' = [procs EXCEPT ![c] = IdleCaller]
  /\ UNCHANGED <<accessToken, tokenExpiry, now, issued, authCalls>>
  /\ TokFrame

\* the clock advances by a second
Tick ==
  /\ now < MaxTicks * MsPerSecond
  /\ now' = now + MsPerSecond
  /\ UNCHANGED <<accessToken, tokenExpiry, issued, authCalls, procs, last>>
  /\ TokFrame

NextTok ==
  \/ \E c \in Callers : CreatePaymentCall(c)
  \/ \E c \in Callers : RefundPaymentCall(c)
  \/ \E c \in Callers : GetStatusCall(c)
  \/ \E c \in Callers : Authenticate(c)
  \/ \E c \in Callers : SendRequest(c)
  \/ \E c \in Callers : Settle(c)
  \/ Tick

SpecTok == InitTok /\ [][NextTok]_vars

----------------------------------------------------------------------------
(* Claims about the session and the webhook entry points (under Spec) *)

\* C1: a webhook delivery whose signature is not the HMAC of its body under
\* the shared secret is never accepted at either entry point: it is not
\* answered as received, no authorized, captured, failed or not_supported
\* action is emitted for it, and no session changes state.
C1_UnverifiedRejected ==
  (last.kind = "webhook" /\ ~last.verified) =>
    /\ last.response \notin {"200", "action"}
    /\ last.action = "none"
    /\ ~last.changed

\* C2: a session whose status is captured or canceled never changes status
\* again, whatever operation or webhook follows.
C2_TerminalStatus ==
  [][(sessStatus \in {"captured", "canceled"}) => (sessStatus' = sessStatus)]_vars

\* C3: authorize returns status authorized only when the status query of that
\* call reported the processor status authorized; for every other processor
\* status it returns a not_authorized error and leaves the session unchanged.
C3_AuthorizeOnlyWhenReported ==
  (last.kind = "op" /\ last.op = "authorize") =>
    IF last.seen.kind = "ok" /\ last.seen.body.status = "authorized"
    THEN last.tag = "ok" /\ last.status = "authorized"
    ELSE last.tag = "error" /\ sessStatus = last.before

\* C4: capture is accepted only from authorized: a capture request is sent only
\* for a session that is authorized, and capture returns a captured result only
\* for a session that was authorized when it was called.
C4_CaptureOnlyFromAuthorized ==
  /\ call.op = "capture" => call.statusAtCall = "authorized"
  /\ (last.kind = "op" /\ last.op = "capture" /\ last.tag = "ok") =>
       last.before = "authorized"

\* C5: once initiate has assigned the externalId, the session data keeps that
\* value and every gateway request for the session is keyed by it.
C5_ExternalIdImmutable ==
  (variant = "foxpay" /\ sessStatus # "none" /\ assignedId # Absent) =>
    /\ ExternalId(variant, sessData) = assignedId
    /\ call.op # "none" => FoxRequest(call.op, call.arg, call.ctx).id = assignedId

\* the error code each FoxPay operation reports for a non-2xx response
OwnCode(op) ==
  CASE op = "initiate" -> "init_failed"
    [] op = "authorize" -> "status_failed"
    [] op = "capture" -> "capture_failed"
    [] op \in {"cancel", "delete"} -> "cancel_failed"
    [] op = "refund" -> "refund_failed"
    [] op = "retrieve" -> "retrieve_failed"
    [] op = "update" -> "update_failed"

FoxRecordOps ==
  {"initiate", "authorize", "capture", "cancel", "delete", "refund", "retrieve",
   "update"}

\* the last result is that of a FoxPay operation that returns a record
FoxReturned == variant = "foxpay" /\ last.kind = "op" /\ last.op \in FoxRecordOps

\* a non-2xx response yields the operation's own code and the body text; a
\* transport or decode failure yields unknown with the original error
FailureByOutcome ==
  /\ last.seen.kind = "non2xx" =>
       /\ last.tag = "error"
       /\ last.code = OwnCode(last.op)
       /\ last.detail = last.seen.text
  /\ last.seen.kind \in {"transport", "unread", "badjson"} =>
       /\ last.tag = "error"
       /\ last.code = "unknown"
       /\ last.error = (IF last.seen.kind = "badjson" THEN "SyntaxError"
                        ELSE "NetworkError")
       /\ last.detail = last.error

NotAuthorizedOnly ==
  last.tag = "ok" \/ (last.op = "authorize" /\ last.code = "not_authorized")

\* C10 (as claimed): the error record of a FoxPay operation is determined by
\* the HTTP outcome, and a 2xx response with a decodable body never yields an
\* error record except not_authorized from authorize.
C10_ErrorByOutcome ==
  FoxReturned =>
    /\ FailureByOutcome
    /\ last.seen.kind = "ok" => NotAuthorizedOnly

\* C10 (amended): as claimed for a 2xx body that decodes to an object; a 2xx
\* body that decodes to null makes initiate, authorize and update return
\* unknown with the TypeError, and the other operations succeed.
C10_ErrorByOutcomeObject ==
  FoxReturned =>
    /\ FailureByOutcome
    /\ (last.seen.kind = "ok" /\ last.seen.body.isObj) => NotAuthorizedOnly
    /\ (last.seen.kind = "ok" /\ ~last.seen.body.isObj) =>
         IF last.op \in {"initiate", "authorize", "update"}
         THEN /\ last.tag = "error"
              /\ last.code = "unknown"
              /\ last.error = "TypeError"
         ELSE last.tag = "ok"

\* C10 witness: initiate answered 2xx with the body null returned unknown
C10_Witness ==
  /\ FoxReturned
  /\ last.op = "initiate"
  /\ last.seen.kind = "ok"
  /\ ~last.seen.body.isObj
  /\ last.code = "unknown"

\* C12: cancel is idempotent in every variant: a cancel that succeeds leaves
\* the session canceled and the status its result names, if it names one, is
\* canceled, the first time and on a session that is canceled already; and
\* for a session that is canceled already no further cancel request is sent
\* to the processor.
C12_CancelIdempotent ==
  /\ (last.kind = "op" /\ last.op = "cancel" /\ last.tag = "ok") =>
       /\ sessStatus = "canceled"
       /\ last.data.status \in {Absent, "canceled"}
  /\ ~(call.op = "cancel" /\ call.statusAtCall = "canceled")

\* C14: refund leaves the session as it was: when the refund of a captured
\* session returns, with success or with an error and whatever the
\* processor's response carries, the session data the host holds has the
\* status and the externalId of the data that was passed in, and the session
\* status is unchanged.
C14_RefundKeepsSession ==
  [][(call.op = "refund" /\ call.statusAtCall = "captured" /\ call'.op = "none") =>
       /\ sessStatus' = sessStatus
       /\ sessData'.status = call.arg.status
       /\ sessData'.id = call.arg.id]_vars

\* the last delivery went to the route POST /payment/webhook
RouteDelivered == last.kind = "webhook" /\ last.entry = "route"

\* C15: the route accepts a delivery if and only if its signature is the HMAC
\* of the exact raw body bytes under the shared secret.
C15_AcceptIffRawHmac ==
  (RouteDelivered /\ last.response \in {"200", "401"}) =>
    (last.response = "200" <=> last.verified)

\* C16: signature verification never throws: whatever the body, the signature
\* and the configured secret, the route answers the delivery, and with the
\* unauthorized rejection where no secret is configured.
C16_VerifyNeverThrows ==
  RouteDelivered =>
    /\ last.response \in {"200", "401"}
    /\ webhookSecret = Absent => last.response = "401"

\* the last delivery went to getWebhookActionAndData and was authentic
VerifiedDelivery ==
  last.kind = "webhook" /\ last.entry = "provider" /\ last.verified

\* C17: for an authentic delivery whose body is an object,
\* getWebhookActionAndData returns authorized exactly for payment_authorized
\* and captured exactly for payment_captured, each with the session_id and
\* amount of the payload, and not_supported with no session data for every
\* other event, which changes no session; a pending session with the id of a
\* payment_captured delivery is captured once the host has applied the action.
C17_WebhookMapping ==
  (VerifiedDelivery /\ Parse(last.seen).isObj) =>
    LET data == Parse(last.seen)
    IN /\ last.response = "action"
       /\ last.action = "authorized" <=> data.event_type = "payment_authorized"
       /\ last.action = "captured" <=> data.event_type = "payment_captured"
       /\ last.action \in {"authorized", "captured"} =>
            /\ last.session_id = data.session_id
            /\ last.amount = data.amount
       /\ last.action \notin {"authorized", "captured"} =>
            /\ last.action = "not_supported"
            /\ last.session_id = Absent
            /\ last.amount = NoAmount
            /\ ~last.changed
       /\ (/\ data.event_type = "payment_captured"
           /\ last.before = "pending"
           /\ sessData.id = data.session_id) => sessStatus = "captured"

\* C17 witness: an authentic payment_captured delivery for the id of a
\* pending session, after which the session is captured
C17_Witness ==
  /\ VerifiedDelivery
  /\ Parse(last.seen).event_type = "payment_captured"
  /\ last.action = "captured"
  /\ last.before = "pending"
  /\ sessData.id = last.session_id
  /\ sessData.id = "fp_1"
  /\ sessStatus = "captured"

\* C18: an authentic delivery whose body is absent or not an object makes
\* getWebhookActionAndData return the action failed; it never ends with an
\* exception.
C18_ParseFailureReturnsFailed ==
  (VerifiedDelivery /\ ~Parse(last.seen).isObj) =>
    /\ last.response # "throw"
    /\ last.action = "failed"

\* the last result is that of a FoxPay operation
FoxDone == variant = "foxpay" /\ last.kind = "op"

----------------------------------------------------------------------------
(* Claims about termination (under SpecLive) *)

\* C21: every started operation eventually completes, also when the
\* processor never answers its request.
C21_EveryCallCompletes == (call.op # "none") ~> (call.op = "none")

----------------------------------------------------------------------------
(* Claims about the credential slot (under SpecTok) *)

\* a cached credential exists and the clock is strictly before its expiry
CredentialValid ==
  /\ ~Falsy(accessToken)
  /\ tokenExpiry.kind = "num"
  /\ now < tokenExpiry.ms

AuthInFlight == {c \in Callers : procs[c].pc = "auth"}

\* C6: while a cached credential exists and the clock is strictly before its
\* expiry, no step of any caller sends an authentication request.
C6_NoAuthWhileValid ==
  [][CredentialValid => (authCalls' = authCalls)]_vars

\* C6 witness: after one authentication call, a later call has passed
\* ensureAuthenticated on the cached credential without authenticating
C6_Witness ==
  /\ CredentialValid
  /\ authCalls = 1
  /\ \E c \in Callers : procs[c].pc = "ready" /\ procs[c].auths = 0

\* C7: every gateway request that carries a token the authentication
\* endpoint issued is sent with the clock still before that token's expiry.
C7_BearerFresh ==
  \A c \in Callers :
    (procs[c].pc = "sent" /\ procs[c].bearer # "undefined") => procs[c].fresh

\* C8 (as claimed): at most one authentication request is in flight at any
\* time for the provider instance.
C8_SingleFlight == Cardinality(AuthInFlight) <= 1

\* C8 (amended): each operation invocation sends at most one authentication
\* request, so at most one is in flight per concurrent operation.
C8_OneAuthPerInvocation ==
  \A c \in Callers :
    /\ procs[c].auths <= 1
    /\ procs[c].pc = "auth" => procs[c].auths = 1

\* C8 witness: two callers, each with its own authentication request in flight
C8_Witness == Cardinality(AuthInFlight) = 2

\* C9: no operation raises an exception to its caller; every outcome is
\* returned as a success payload or an error record.
C9_NeverThrows == last.kind = "op" => last.tag # "throw"

\* C11: an operation whose authentication request was answered with a body
\* that lacks accessToken or expiresIn fails there: it never goes on to send
\* its gateway request, and it has sent one authentication request only.
C11_AuthFailureFatal ==
  \A c \in Callers :
    /\ procs[c].auths <= 1
    /\ procs[c].malformed => procs[c].pc # "sent"

\* the credential slot does not hold the undefined token that a malformed
\* authentication body leaves in it
NoUndefinedToken == accessToken # "undefined"

\* the last result is that of a status operation whose query was sent
StatusQueried ==
  /\ last.kind = "op" /\ last.op = "status" /\ "body" \in DOMAIN last.seen
  /\ NoUndefinedToken

\* the canonical status the claim assigns to the outcome of a status query,
\* the processor's string compared without regard to letter case
ClaimedStatus(h) ==
  IF h.kind = "ok" /\ h.body.isObj
  THEN MapStatus(ToLowerCase(h.body.status))
  ELSE "error"

\* C13: the status operation of every variant returns authorized, captured or
\* canceled for the processor status of that name, pending for any other
\* processor status, and error when the status query fails.
C13_StatusMapping ==
  StatusQueried => (last.tag = "ok" /\ last.status = ClaimedStatus(last.seen))

\* the last result is that of a createPayment whose gateway request was sent
CreateRequested ==
  /\ last.kind = "op" /\ last.op = "create" /\ "body" \in DOMAIN last.seen
  /\ NoUndefinedToken

\* C19: initiation succeeds or creates nothing: answered 2xx it returns
\* session data that carry the identifier of that response, and on any error
\* it returns an error record that holds no session data.
C19_InitiateAllOrNothing ==
  CreateRequested =>
    IF last.seen.kind = "ok" /\ last.seen.body.isObj
    THEN /\ last.tag = "ok"
         /\ ExternalId("custom", last.data) = last.seen.body.transactionId
    ELSE /\ last.tag = "error"
         /\ last.data = NoData

\* C22: concurrent refreshes complete independently and the last write wins:
\* every authentication call that completes stores its own token and the
\* expiry counted from its completion, nothing else changes the slot, a
\* caller whose authentication has completed can send its gateway request
\* whatever the other callers do, and an operation ends with an
\* authentication failure only when its own authentication request failed.
C22_LastWriteWins ==
  [][/\ issued' = issued + 1 =>
          /\ accessToken' \in {Token(issued'), "undefined"}
          /\ tokenExpiry' \in
               {NumExpiry(now + e * MsPerSecond) : e \in ExpiresInSecs}
                 \cup {NaNExpiry}
     /\ issued' = issued => UNCHANGED <<accessToken, tokenExpiry>>
     /\ \A c \in Callers : procs[c].pc = "ready" => ENABLED SendRequest(c)
     /\ (last'.kind = "op" /\ last'.error = "Authentication failed") =>
          AuthThrows(last'.seen)]_vars

\* C22 witness: two callers refreshed concurrently, both authentication calls
\* completed, the slot holds the second token and both sent their requests
C22_Witness ==
  /\ issued = 2
  /\ accessToken = Token(2)
  /\ \A c \in Callers : procs[c].auths = 1 /\ procs[c].pc = "sent"

\* C23: accessToken and tokenExpiry are both null or both from one successful
\* authentication response: whenever either field changes, an authentication
\* call has completed, accessToken is the token of its response and
\* tokenExpiry is the completion time plus expiresIn * 1000 of that response;
\* a failed authentication call changes neither field.
C23_CredentialPaired ==
  [][(<<accessToken, tokenExpiry>>' # <<accessToken, tokenExpiry>>) =>
       /\ issued' = issued + 1
       /\ accessToken' = Token(issued')
       /\ tokenExpiry' \in
            {NumExpiry(now + e * MsPerSecond) : e \in ExpiresInSecs}]_vars

====
